---- MODULE Spec2Model ----
(***************************************************************************)
(* Model of brc-rust (src/main.rs): the input buffer is cut into `cpus`    *)
(* chunks, one scoped thread per chunk runs consume() on a private Map,    *)
(* and after the scope joins the private maps are folded into one Map,     *)
(* which is drained, sorted and printed.                                   *)
(*                                                                         *)
(* Representation choices:                                                 *)
(*  - a byte is its code 0..255, the buffer a sequence of bytes; offsets   *)
(*    are 0-based as in the source (At(d, i) is d[i]);                     *)
(*  - a u32 is the pair <<high 16 bits, low 16 bits>>;                     *)
(*  - an f32 is [neg, exp, man], the value (-1)^neg * man * 2^exp with     *)
(*    2^23 <= man < 2^24, or man = 0 for a zero; its operations round to    *)
(*    nearest, ties to even, as IEEE 754 binary32 does;                     *)
(*  - [Option<T>; MAP_SIZE] is the function from the filled indices to T.  *)
(***************************************************************************)
EXTENDS Integers, Sequences, FiniteSets, TLC

VARIABLES
  data,          \* the bytes of the file
  cpus,          \* thread::available_parallelism()
  mapped,        \* per lane: the slice load_file returned to it
  lpc,           \* per lane: where its thread is
  chunk_offset,  \* per lane: consume's chunk_offset
  size,          \* per lane: consume's size
  start,         \* per lane: consume's start
  readptr,       \* per lane: consume's readptr
  stores,        \* per lane: its Map (while merged: what its MapIter holds)
  fed,           \* per lane: the records process has put into its Map
  store,         \* main's Map
  mpc,           \* where main is
  mlane,         \* the merge loop's position in stores
  iter_idx,      \* MapIter.idx of the store being merged
  out            \* the vector handed to print_store

vars == <<data, cpus, mapped, lpc, chunk_offset, size, start, readptr, stores,
          fed, store, mpc, mlane, iter_idx, out>>

\* ---------------------------------------------------------------- bounds
MaxRecords == 3
MaxCpus == 3

\* ------------------------------------------------------------- constants
MAP_SIZE == 10829
NL == 10
SEMI == 59
MINUS == 45
DOT == 46
ZERO == 48
HALF == 256 * 256

\* ----------------------------------------------------------- u32, FNV-1a
Pow2Table ==
  <<1, 2, 4, 8, 16, 32, 64, 128, 256, 512, 1024, 2048, 4096, 8192, 16384,
    32768, 65536, 131072, 262144, 524288, 1048576, 2097152, 4194304,
    8388608, 16777216, 33554432, 67108864, 134217728, 268435456,
    536870912, 1073741824>>
Pow2(n) == Pow2Table[n + 1]

\* bitwise xor of the low n bits of a and b
RECURSIVE Xor8(_, _, _)
Xor8(a, b, n) ==
  IF n = 0 THEN 0
  ELSE ((a + b) % 2) + 2 * Xor8(a \div 2, b \div 2, n - 1)

\* v ^= ch as u32
XorByte(v, ch) == <<v[1], (v[2] \div 256) * 256 + Xor8(v[2] % 256, ch, 8)>>

\* v.wrapping_mul(16777619), 16777619 = 2^24 + 403
WrappingMulPrime(v) ==
  LET p == v[2] * 403
  IN  <<(v[1] * 403 + (p \div HALF) + (v[2] % 256) * 256) % HALF, p % HALF>>

\* 2166136261 = 0x811C9DC5
FNV_OFFSET == <<33052, 40389>>

HashStep(v, ch) == WrappingMulPrime(XorByte(v, ch))

\* Map::hash
RECURSIVE HashFrom(_, _, _)
HashFrom(k, idx, v) ==
  IF idx > Len(k) THEN v ELSE HashFrom(k, idx + 1, HashStep(v, k[idx]))

hash(k) == HashFrom(k, 1, FNV_OFFSET)

\* (hash as usize) % MAP_SIZE
SlotIdx(h) == (h[1] * (HALF % MAP_SIZE) + h[2]) % MAP_SIZE

\* ------------------------------------------------------------------- f32
F32(neg, exp, man) == [neg |-> neg, exp |-> exp, man |-> man]

\* man * 2^exp with man in [2^26, 2^27): 24 bits and guard, round, sticky
F32Round(neg, exp, man) ==
  LET q == man \div 8
      r == man % 8
      up == IF r > 4 \/ (r = 4 /\ q % 2 = 1) THEN q + 1 ELSE q
  IN  IF up = Pow2(24) THEN F32(neg, exp + 4, Pow2(23)) ELSE F32(neg, exp + 3, up)

\* shifts left until man reaches 2^26
RECURSIVE F32Normalize(_, _, _)
F32Normalize(neg, exp, man) ==
  IF man < Pow2(26) THEN F32Normalize(neg, exp - 1, man * 2)
  ELSE F32Round(neg, exp, man)

F32AbsLess(a, b) == a.exp < b.exp \/ (a.exp = b.exp /\ a.man < b.man)

\* a + b of two non-zero f32 with |a| >= |b|
F32AddOrdered(a, b) ==
  LET d == a.exp - b.exp
      m1 == a.man * 8
      m2 == b.man * 8
      q == IF d >= 28 THEN 0 ELSE m2 \div Pow2(d)
      r == IF d >= 28 THEN 1 ELSE m2 % Pow2(d)
      m2s == IF r # 0 /\ q % 2 = 0 THEN q + 1 ELSE q
      sum == IF a.neg = b.neg THEN m1 + m2s ELSE m1 - m2s
  IN  IF sum = 0 THEN F32(FALSE, 0, 0)
      ELSE IF sum >= Pow2(27)
      THEN F32Round(a.neg, a.exp - 2, (sum \div 2) + (IF sum % 2 = 1 /\ (sum \div 2) % 2 = 0 THEN 1 ELSE 0))
      ELSE F32Normalize(a.neg, a.exp - 3, sum)

\* a + b
F32Add(a, b) ==
  IF a.man = 0 /\ b.man = 0 THEN F32(a.neg /\ b.neg, 0, 0)
  ELSE IF a.man = 0 THEN b
  ELSE IF b.man = 0 THEN a
  ELSE IF F32AbsLess(a, b) THEN F32AddOrdered(b, a)
  ELSE F32AddOrdered(a, b)

\* a < b
F32Lt(a, b) ==
  IF a.man = 0 THEN b.man # 0 /\ ~b.neg
  ELSE IF b.man = 0 THEN a.neg
  ELSE IF a.neg # b.neg THEN a.neg
  ELSE IF a.neg THEN F32AbsLess(b, a)
  ELSE F32AbsLess(a, b)

\* the least k with n * 2^k >= c * 2^23
RECURSIVE ShiftFor(_, _, _)
ShiftFor(n, c, k) == IF n * Pow2(k) >= c * Pow2(23) THEN k ELSE ShiftFor(n, c, k + 1)

\* (n * 2^exp) / c for integers 0 < n < 2^24 and 0 < c < 2^7
F32Quotient(neg, exp, n, c) ==
  LET k == ShiftFor(n, c, 0)
      q == (n * Pow2(k)) \div c
      r == (n * Pow2(k)) % c
      up == IF 2 * r > c \/ (2 * r = c /\ q % 2 = 1) THEN q + 1 ELSE q
  IN  IF up = Pow2(24) THEN F32(neg, exp - k + 1, Pow2(23)) ELSE F32(neg, exp - k, up)

\* val as f32 / divisor, the divisor 10. or -10.
F32DivTen(val, negative) ==
  IF val = 0 THEN F32(negative, 0, 0) ELSE F32Quotient(negative, 0, val, 10)

\* a / (count as f32)
F32DivCount(a, count) ==
  IF a.man = 0 THEN a ELSE F32Quotient(a.neg, a.exp, a.man, count)

\* ------------------------------------------------------------ the buffer
\* data[i] of the source; the caller has checked i < data.len()
At(d, i) == d[i + 1]

\* data.get_unchecked(lo..hi)
Slice(d, lo, hi) == [j \in 1..(hi - lo) |-> d[lo + j]]

\* Input records: a key and a measurement written as an optional '-', one or
\* two integer digits, '.', one fractional digit.
KeyA == <<97>>
KeyFp == <<70, 112>>
KeyGlbvs == <<103, 108, 98, 118, 115>>
KeyYacxa == <<121, 97, 99, 120, 97>>

Digits == 0..9
Measurement(neg, ip, fp) == [neg |-> neg, ip |-> ip, fp |-> fp]
AllMeasurements ==
  {Measurement(n, i, f) :
     n \in BOOLEAN,
     i \in {<<a>> : a \in Digits} \cup {<<a, b>> : a \in Digits, b \in Digits},
     f \in Digits}
Hot == Measurement(FALSE, <<9, 9>>, 8)
Cold == Measurement(TRUE, <<1, 2>>, 3)

\* the bytes of a measurement
MeasurementBytes(m) ==
  (IF m.neg THEN <<MINUS>> ELSE << >>)
    \o [j \in 1..Len(m.ip) |-> ZERO + m.ip[j]] \o <<DOT, ZERO + m.fp>>

Record(k, m) == [key |-> k, m |-> m]
RecordBytes(r) == r.key \o <<SEMI>> \o MeasurementBytes(r.m)

\* records joined by '\n'; the last one terminated or not
RECURSIVE FileBytes(_, _)
FileBytes(recs, terminated) ==
  IF recs = << >> THEN << >>
  ELSE IF Len(recs) = 1
       THEN RecordBytes(recs[1]) \o (IF terminated THEN <<NL>> ELSE << >>)
       ELSE RecordBytes(recs[1]) \o <<NL>> \o FileBytes(Tail(recs), terminated)

RECURSIVE SeqsUpTo(_, _)
SeqsUpTo(S, n) ==
  IF n = 0 THEN {<< >>}
  ELSE LET shorter == SeqsUpTo(S, n - 1)
       IN  shorter \cup {Append(s, x) : s \in {t \in shorter : Len(t) = n - 1}, x \in S}

\* one key with two values, and a key of the same slot with another hash
FewRecords == {Record(KeyA, Hot), Record(KeyA, Cold), Record(KeyFp, Cold)}
\* two keys of one hash
EqualHashRecords == {Record(KeyGlbvs, Hot), Record(KeyYacxa, Cold)}

\* two keys of different slots, the first of the larger slot
TwoSlotRecords == {Record(KeyA, Hot), Record(KeyGlbvs, Cold)}

\* every buffer of up to n of the records S, with and without a final '\n'
FilesOf(S, n) == {FileBytes(recs, t) : recs \in SeqsUpTo(S, n), t \in BOOLEAN}

FewFiles ==
  FilesOf(FewRecords, MaxRecords) \cup FilesOf(EqualHashRecords, MaxRecords)
    \cup FilesOf(TwoSlotRecords, MaxRecords)

\* one short record, for runs with more lanes than bytes
ShortFiles ==
  {FileBytes(<<Record(KeyA, Measurement(FALSE, <<0>>, 0))>>, t) : t \in BOOLEAN}

\* every buffer of one record, over all measurements
OneRecordFiles ==
  {FileBytes(<<Record(KeyA, m)>>, t) : m \in AllMeasurements, t \in BOOLEAN}

\* ------------------------------------------------------------ parse_line
None == [none |-> TRUE]

\* the delimiter scan: hashes the bytes before the first ';' at or after idx
RECURSIVE FindDelim(_, _, _)
FindDelim(d, idx, loc_hash) ==
  IF idx < Len(d)
  THEN IF At(d, idx) = SEMI
       THEN [idx |-> idx, loc_hash |-> loc_hash, found |-> TRUE]
       ELSE FindDelim(d, idx + 1, HashStep(loc_hash, At(d, idx)))
  ELSE [idx |-> idx, loc_hash |-> loc_hash, found |-> FALSE]

\* data.get_unchecked(i): outside the buffer the read is undefined
Unchecked(d, i) == IF i < Len(d) THEN At(d, i) ELSE 0

\* (ch - b'0') as i32: the u8 difference, which wraps when ch is below '0'
\* (release build); a digit gives its value
DigitOf(ch) == (ch - ZERO) % 256

\* parse_line with the two-digit branch stepping by one: the '.' is not skipped
parse_line_dot_not_skipped(d, offset) ==
  IF offset >= Len(d) THEN None
  ELSE
    LET sc == FindDelim(d, offset, FNV_OFFSET)
        delim == IF sc.found THEN sc.idx ELSE offset
        i0 == sc.idx + 1
        neg == Unchecked(d, i0) = MINUS
        i1 == IF neg THEN i0 + 1 ELSE i0
        v1 == DigitOf(Unchecked(d, i1)) * 10
        i2 == i1 + 1
        ch2 == Unchecked(d, i2)
        short == ch2 = DOT
        i3 == i2 + 1
        digit == DigitOf(Unchecked(d, i3))
        val == IF short THEN v1 + digit ELSE (v1 + DigitOf(ch2)) * 10 + digit
    IN  [none |-> FALSE,
         undefined |-> i3 >= Len(d),
         place |-> Slice(d, offset, delim),
         place_hash |-> sc.loc_hash,
         val |-> F32DivTen(val, neg),
         next |-> i3 + 1]

\* parse_line hashing one byte too far: the ';' and the first byte of the value
parse_line_hash_past_delimiter(d, offset) ==
  IF offset >= Len(d) THEN None
  ELSE
    LET sc == FindDelim(d, offset, FNV_OFFSET)
        delim == IF sc.found THEN sc.idx ELSE offset
        i0 == sc.idx + 1
        neg == Unchecked(d, i0) = MINUS
        i1 == IF neg THEN i0 + 1 ELSE i0
        v1 == DigitOf(Unchecked(d, i1)) * 10
        i2 == i1 + 1
        ch2 == Unchecked(d, i2)
        short == ch2 = DOT
        i3 == IF short THEN i2 + 1 ELSE i2 + 1 + 1
        digit == DigitOf(Unchecked(d, i3))
        val == IF short THEN v1 + digit ELSE (v1 + DigitOf(ch2)) * 10 + digit
    IN  [none |-> FALSE,
         undefined |-> i3 >= Len(d),
         place |-> Slice(d, offset, delim),
         place_hash |-> HashStep(HashStep(sc.loc_hash, SEMI), Unchecked(d, i0)),
         val |-> F32DivTen(val, neg),
         next |-> i3 + 1]

parse_line(d, offset) ==
  IF offset >= Len(d) THEN None
  ELSE
    LET sc == FindDelim(d, offset, FNV_OFFSET)
        delim == IF sc.found THEN sc.idx ELSE offset
        i0 == sc.idx + 1
        neg == Unchecked(d, i0) = MINUS
        i1 == IF neg THEN i0 + 1 ELSE i0
        v1 == DigitOf(Unchecked(d, i1)) * 10
        i2 == i1 + 1
        ch2 == Unchecked(d, i2)
        short == ch2 = DOT
        i3 == IF short THEN i2 + 1 ELSE i2 + 1 + 1
        digit == DigitOf(Unchecked(d, i3))
        val == IF short THEN v1 + digit ELSE (v1 + DigitOf(ch2)) * 10 + digit
    IN  [none |-> FALSE,
         undefined |-> i3 >= Len(d),
         place |-> Slice(d, offset, delim),
         place_hash |-> sc.loc_hash,
         val |-> F32DivTen(val, neg),
         next |-> i3 + 1]

\* ------------------------------------------------------------------- Map
Put(f, i, x) == [j \in DOMAIN f \cup {i} |-> IF j = i THEN x ELSE f[j]]
Take(f, i) == [j \in DOMAIN f \ {i} |-> f[j]]

\* Map::new
NewMap == [slots1 |-> << >>, slots2 |-> << >>]

Data(min, max, sum, count) == [min |-> min, max |-> max, sum |-> sum, count |-> count]

\* get_mut_with_hash taking a slot held by another hash for an empty one
get_mut_with_hash_miss_on_mismatch(map, k, h) ==
  LET slot_idx == SlotIdx(h)
  IN  IF slot_idx \in DOMAIN map.slots1 /\ map.slots1[slot_idx] = h
      THEN IF slot_idx \in DOMAIN map.slots2
           THEN [kind |-> "some", slot |-> slot_idx]
           ELSE [kind |-> "panic", msg |-> "should exist if slot1 is filled"]
      ELSE [kind |-> "none"]

\* get_mut_with_hash comparing the key bytes as well as the hash
get_mut_with_hash_comparing_keys(map, k, h) ==
  LET slot_idx == SlotIdx(h)
  IN  IF slot_idx \in DOMAIN map.slots1
      THEN IF map.slots1[slot_idx] = h
           THEN IF slot_idx \in DOMAIN map.slots2
                THEN IF map.slots2[slot_idx][1] = k
                     THEN [kind |-> "some", slot |-> slot_idx]
                     ELSE [kind |-> "panic", msg |-> "unexpected read collision"]
                ELSE [kind |-> "panic", msg |-> "should exist if slot1 is filled"]
           ELSE [kind |-> "panic", msg |-> "unexpected read collision"]
      ELSE [kind |-> "none"]

\* Map::get_mut_with_hash: the slot of the entry, no entry, or a panic
get_mut_with_hash(map, k, h) ==
  LET slot_idx == SlotIdx(h)
  IN  IF slot_idx \in DOMAIN map.slots1
      THEN IF map.slots1[slot_idx] = h
           THEN IF slot_idx \in DOMAIN map.slots2
                THEN [kind |-> "some", slot |-> slot_idx]
                ELSE [kind |-> "panic", msg |-> "should exist if slot1 is filled"]
           ELSE [kind |-> "panic", msg |-> "unexpected read collision"]
      ELSE [kind |-> "none"]

\* insert_with_hash filling slots1 of an empty slot and leaving slots2 empty
insert_with_hash_slots2_not_filled(map, k, v, h) ==
  LET slot_idx == SlotIdx(h)
  IN  IF slot_idx \in DOMAIN map.slots1
      THEN IF slot_idx \notin DOMAIN map.slots2
           THEN [kind |-> "panic", msg |-> "should exist if slot1 is filled"]
           ELSE IF map.slots1[slot_idx] = h
                THEN [kind |-> "ok",
                      map |-> [map EXCEPT !.slots2[slot_idx] = <<@[1], v>>]]
                ELSE [kind |-> "panic", msg |-> "unexpected insert collision"]
      ELSE [kind |-> "ok",
            map |-> [slots1 |-> Put(map.slots1, slot_idx, h),
                     slots2 |-> map.slots2]]

\* Map::insert_with_hash: the map afterwards, or a panic
insert_with_hash(map, k, v, h) ==
  LET slot_idx == SlotIdx(h)
  IN  IF slot_idx \in DOMAIN map.slots1
      THEN IF slot_idx \notin DOMAIN map.slots2
           THEN [kind |-> "panic", msg |-> "should exist if slot1 is filled"]
           ELSE IF map.slots1[slot_idx] = h
                THEN [kind |-> "ok",
                      map |-> [map EXCEPT !.slots2[slot_idx] = <<@[1], v>>]]
                ELSE [kind |-> "panic", msg |-> "unexpected insert collision"]
      ELSE [kind |-> "ok",
            map |-> [slots1 |-> Put(map.slots1, slot_idx, h),
                     slots2 |-> Put(map.slots2, slot_idx, <<k, v>>)]]

\* Map::get_mut, Map::insert
get_mut(map, k) == get_mut_with_hash(map, k, hash(k))
insert(map, k, v) == insert_with_hash(map, k, v, hash(k))

\* MapIter::next leaving self.idx at the slot it returns
MapIterNext_idx_not_advanced(map, idx) ==
  LET filled == {i \in DOMAIN map.slots1 : i >= idx}
  IN  IF filled = {} THEN [kind |-> "none"]
      ELSE LET i == CHOOSE j \in filled : \A m \in filled : j <= m
           IN  IF i \in DOMAIN map.slots2
               THEN [kind |-> "some", item |-> map.slots2[i], idx |-> i,
                     map |-> [map EXCEPT !.slots2 = Take(@, i)]]
               ELSE [kind |-> "panic", msg |-> "should exist if slot1 is filled"]

\* MapIter::next from position idx: an item, None, or a panic
MapIterNext(map, idx) ==
  LET filled == {i \in DOMAIN map.slots1 : i >= idx}
  IN  IF filled = {} THEN [kind |-> "none"]
      ELSE LET i == CHOOSE j \in filled : \A m \in filled : j <= m
           IN  IF i \in DOMAIN map.slots2
               THEN [kind |-> "some", item |-> map.slots2[i], idx |-> i + 1,
                     map |-> [map EXCEPT !.slots2 = Take(@, i)]]
               ELSE [kind |-> "panic", msg |-> "should exist if slot1 is filled"]

\* ------------------------------------------------------ process, consume
\* the update of an entry by one value (process, lines 265-273)
UpdateData(d, val) ==
  Data(IF F32Lt(val, d.min) THEN val ELSE d.min,
       IF F32Lt(d.max, val) THEN val ELSE d.max,
       F32Add(d.sum, val),
       d.count + 1)

\* MergeData comparing the maxima the wrong way round (line 214)
MergeData_smaller_max(d, v) ==
  Data(IF F32Lt(v.min, d.min) THEN v.min ELSE d.min,
       IF F32Lt(v.max, d.max) THEN v.max ELSE d.max,
       F32Add(d.sum, v.sum),
       d.count + v.count)

\* the fold of a lane's entry into the final one (cluster_process, 211-219)
MergeData(d, v) ==
  Data(IF F32Lt(v.min, d.min) THEN v.min ELSE d.min,
       IF F32Lt(d.max, v.max) THEN v.max ELSE d.max,
       F32Add(d.sum, v.sum),
       d.count + v.count)

process(d, offset, map) ==
  LET parsed == parse_line(d, offset)
  IN  IF parsed.none THEN [kind |-> "none"]
      ELSE IF parsed.undefined THEN [kind |-> "undefined"]
      ELSE
        LET got == get_mut_with_hash(map, parsed.place, parsed.place_hash)
        IN  IF got.kind = "panic" THEN [kind |-> "panic", msg |-> got.msg]
            ELSE IF got.kind = "some"
            THEN [kind |-> "some", parsed |-> parsed, end |-> parsed.next,
                  map |-> [map EXCEPT !.slots2[got.slot] =
                                        <<@[1], UpdateData(@[2], parsed.val)>>]]
            ELSE
              LET ins == insert_with_hash(map, parsed.place,
                           Data(parsed.val, parsed.val, parsed.val, 1),
                           parsed.place_hash)
              IN  IF ins.kind = "panic" THEN [kind |-> "panic", msg |-> ins.msg]
                  ELSE [kind |-> "some", parsed |-> parsed, end |-> parsed.next,
                        map |-> ins.map]

\* FindStart testing the byte at chunk_offset instead of the one before it
RECURSIVE FindStart_at_separator(_, _)
FindStart_at_separator(d, co) ==
  IF co = 0 THEN [kind |-> "ok", start |-> 0]
  ELSE IF co >= Len(d) THEN [kind |-> "panic", msg |-> "index out of bounds"]
  ELSE IF At(d, co) = NL THEN [kind |-> "ok", start |-> co]
  ELSE FindStart_at_separator(d, co + 1)

\* consume, step 1: the start point; data[chunk_offset - 1] is bounds-checked
RECURSIVE FindStart(_, _)
FindStart(d, co) ==
  IF co = 0 THEN [kind |-> "ok", start |-> 0]
  ELSE IF co - 1 >= Len(d) THEN [kind |-> "panic", msg |-> "index out of bounds"]
  ELSE IF At(d, co - 1) = NL THEN [kind |-> "ok", start |-> co]
  ELSE FindStart(d, co + 1)

\* consume, step 2: the record loop run to its end (lines 252-259)
RECURSIVE ConsumeLoop(_, _, _, _, _)
ConsumeLoop(d, st, rp, sz, map) ==
  IF rp - st < sz
  THEN LET r == process(d, rp, map)
       IN  IF r.kind = "some" THEN ConsumeLoop(d, st, r.end + 1, sz, r.map)
           ELSE IF r.kind = "none" THEN [kind |-> "ok", map |-> map]
           ELSE [kind |-> r.kind]
  ELSE [kind |-> "ok", map |-> map]

\* consume, run to its end
consume(d, co, sz, map) ==
  LET s == FindStart(d, co)
  IN  IF s.kind = "ok" THEN ConsumeLoop(d, s.start, s.start, sz, map)
      ELSE [kind |-> "panic"]

\* the merge of one (k, v) of a lane's store into main's (lines 210-230)
FoldItem(final, item) ==
  LET k == item[1]
      v == item[2]
      got == get_mut(final, k)
  IN  IF got.kind = "some"
      THEN [kind |-> "ok",
            map |-> [final EXCEPT !.slots2[got.slot] = <<@[1], MergeData(@[2], v)>>]]
      ELSE IF got.kind = "none"
      THEN insert(final, k, Data(v.min, v.max, v.sum, v.count))
      ELSE [kind |-> "panic", msg |-> got.msg]

\* the merge of a whole lane's store, from MapIter position idx (lines 209-231)
RECURSIVE FoldStore(_, _, _)
FoldStore(final, local, idx) ==
  LET nx == MapIterNext(local, idx)
  IN  IF nx.kind = "none" THEN [kind |-> "ok", map |-> final]
      ELSE IF nx.kind = "panic" THEN [kind |-> "panic"]
      ELSE LET f == FoldItem(final, nx.item)
           IN  IF f.kind = "ok" THEN FoldStore(f.map, nx.map, nx.idx)
               ELSE [kind |-> "panic"]

\* cluster_process with one lane: the whole buffer is consumed by lane 0 and
\* its store is merged into an empty one
SingleLane(d) ==
  LET c == consume(d, 0, Len(d), NewMap)
  IN  IF c.kind = "ok" THEN FoldStore(NewMap, c.map, 0) ELSE [kind |-> "panic"]

\* ------------------------------------------------------- cluster_process
Lanes == 0..(cpus - 1)
size_per_cpu == Len(data) \div cpus
remains == Len(data) % cpus
ChunkOffset(idx) == idx * size_per_cpu
\* every lane given size_per_cpu, the remainder dropped
ChunkSize_remainder_dropped(idx) == size_per_cpu

ChunkSize(idx) == IF idx = cpus - 1 THEN size_per_cpu + remains ELSE size_per_cpu

\* --------------------------------------------------------------- main
\* store.into_iter().collect::<Vec<_>>()
RECURSIVE Collect(_, _, _)
Collect(map, idx, acc) ==
  LET nx == MapIterNext(map, idx)
  IN  IF nx.kind = "none" THEN [kind |-> "ok", v |-> acc, map |-> map]
      ELSE IF nx.kind = "panic" THEN [kind |-> "panic", msg |-> nx.msg]
      ELSE Collect(nx.map, nx.idx, Append(acc, nx.item))

\* the order of &[u8]: lexicographic over bytes
RECURSIVE BytesLeq(_, _)
BytesLeq(a, b) ==
  IF a = << >> THEN TRUE
  ELSE IF b = << >> THEN FALSE
  ELSE IF a[1] # b[1] THEN a[1] < b[1]
  ELSE BytesLeq(Tail(a), Tail(b))

\* v.sort_unstable_by_key(|p| p.0): equal keys may come out in any order
SortedByKey(v) ==
  {w \in [1..Len(v) -> {v[i] : i \in 1..Len(v)}] :
     /\ \A x \in {v[i] : i \in 1..Len(v)} :
          Cardinality({i \in 1..Len(v) : w[i] = x})
            = Cardinality({i \in 1..Len(v) : v[i] = x})
     /\ \A i \in 1..(Len(v) - 1) : BytesLeq(w[i][1], w[i + 1][1])}

\* ------------------------------------------------------------------ Init
Init ==
  /\ \/ data \in FewFiles /\ cpus \in 1..MaxCpus
     \/ data \in OneRecordFiles /\ cpus = 1
     \/ data \in ShortFiles /\ cpus = Len(data) + 1
  /\ mapped = [l \in Lanes |-> data]
  /\ lpc = [l \in Lanes |-> "spawned"]
  /\ chunk_offset = [l \in Lanes |-> ChunkOffset(l)]
  /\ size = [l \in Lanes |-> ChunkSize(l)]
  /\ start = [l \in Lanes |-> 0]
  /\ readptr = [l \in Lanes |-> 0]
  /\ stores = [l \in Lanes |-> NewMap]
  /\ fed = [l \in Lanes |-> << >>]
  /\ store = NewMap
  /\ mpc = "scope"
  /\ mlane = 0
  /\ iter_idx = 0
  /\ out = << >>

\* --------------------------------------------------------------- actions
\* consume, step 1 (lines 236-249, 252)
LaneSeek(l) ==
  /\ lpc[l] = "spawned"
  /\ LET r == FindStart(mapped[l], chunk_offset[l])
     IN  IF r.kind = "ok"
         THEN /\ start' = [start EXCEPT ![l] = r.start]
              /\ chunk_offset' = [chunk_offset EXCEPT ![l] = r.start]
              /\ readptr' = [readptr EXCEPT ![l] = r.start]
              /\ lpc' = [lpc EXCEPT ![l] = "scan"]
         ELSE /\ lpc' = [lpc EXCEPT ![l] = "panic"]
              /\ chunk_offset' = [chunk_offset EXCEPT ![l] = Len(mapped[l]) + 1]
              /\ UNCHANGED <<start, readptr>>
  /\ UNCHANGED <<data, cpus, mapped, size, stores, fed, store, mpc, mlane, iter_idx, out>>

\* LaneProcess with every lane working on the Map of lane 0
LaneProcess_shared_map(l) ==
  /\ lpc[l] = "scan"
  /\ readptr[l] - start[l] < size[l]
  /\ LET r == process(mapped[l], readptr[l], stores[0])
     IN  IF r.kind = "some"
         THEN /\ readptr' = [readptr EXCEPT ![l] = r.end + 1]
              /\ stores' = [stores EXCEPT ![0] = r.map]
              /\ fed' = [fed EXCEPT ![l] =
                           Append(@, [offset |-> readptr[l], parsed |-> r.parsed])]
              /\ UNCHANGED lpc
         ELSE /\ lpc' = [lpc EXCEPT ![l] =
                           IF r.kind = "none" THEN "done" ELSE r.kind]
              /\ UNCHANGED <<readptr, stores, fed>>
  /\ UNCHANGED <<data, cpus, mapped, chunk_offset, size, start, store, mpc, mlane,
                 iter_idx, out>>

\* LaneProcess going on at the offset process returned, not one past it
LaneProcess_separator_not_skipped(l) ==
  /\ lpc[l] = "scan"
  /\ readptr[l] - start[l] < size[l]
  /\ LET r == process(mapped[l], readptr[l], stores[l])
     IN  IF r.kind = "some"
         THEN /\ readptr' = [readptr EXCEPT ![l] = r.end]
              /\ stores' = [stores EXCEPT ![l] = r.map]
              /\ fed' = [fed EXCEPT ![l] =
                           Append(@, [offset |-> readptr[l], parsed |-> r.parsed])]
              /\ UNCHANGED lpc
         ELSE /\ lpc' = [lpc EXCEPT ![l] =
                           IF r.kind = "none" THEN "done" ELSE r.kind]
              /\ UNCHANGED <<readptr, stores, fed>>
  /\ UNCHANGED <<data, cpus, mapped, chunk_offset, size, start, store, mpc, mlane,
                 iter_idx, out>>

\* consume, one iteration of the record loop (lines 253-258)
LaneProcess(l) ==
  /\ lpc[l] = "scan"
  /\ readptr[l] - start[l] < size[l]
  /\ LET r == process(mapped[l], readptr[l], stores[l])
     IN  IF r.kind = "some"
         THEN /\ readptr' = [readptr EXCEPT ![l] = r.end + 1]
              /\ stores' = [stores EXCEPT ![l] = r.map]
              /\ fed' = [fed EXCEPT ![l] =
                           Append(@, [offset |-> readptr[l], parsed |-> r.parsed])]
              /\ UNCHANGED lpc
         ELSE /\ lpc' = [lpc EXCEPT ![l] =
                           IF r.kind = "none" THEN "done" ELSE r.kind]
              /\ UNCHANGED <<readptr, stores, fed>>
  /\ UNCHANGED <<data, cpus, mapped, chunk_offset, size, start, store, mpc, mlane,
                 iter_idx, out>>

\* consume, the loop condition fails (line 253)
LaneExit(l) ==
  /\ lpc[l] = "scan"
  /\ ~(readptr[l] - start[l] < size[l])
  /\ lpc' = [lpc EXCEPT ![l] = "done"]
  /\ UNCHANGED <<data, cpus, mapped, chunk_offset, size, start, readptr, stores, fed,
                 store, mpc, mlane, iter_idx, out>>

\* Join going on to the merge although a thread panicked
Join_ignoring_panics ==
  /\ mpc = "scope"
  /\ \A l \in Lanes : lpc[l] \in {"done", "panic"}
  /\ mpc' = "merge"
  /\ UNCHANGED <<data, cpus, mapped, lpc, chunk_offset, size, start, readptr, stores,
                 fed, store, mlane, iter_idx, out>>

\* Join returning as soon as one thread has ended
Join_first_thread_only ==
  /\ mpc = "scope"
  /\ \E l \in Lanes : lpc[l] \in {"done", "panic"}
  /\ mpc' = IF \E l \in Lanes : lpc[l] = "panic" THEN "panic" ELSE "merge"
  /\ UNCHANGED <<data, cpus, mapped, lpc, chunk_offset, size, start, readptr, stores,
                 fed, store, mlane, iter_idx, out>>

\* Join waiting for every thread to return, a panicked one never does
Join_waiting_for_return ==
  /\ mpc = "scope"
  /\ \A l \in Lanes : lpc[l] = "done"
  /\ mpc' = "merge"
  /\ UNCHANGED <<data, cpus, mapped, lpc, chunk_offset, size, start, readptr, stores,
                 fed, store, mlane, iter_idx, out>>

\* thread::scope returns once every thread has ended, and panics if one did
Join ==
  /\ mpc = "scope"
  /\ \A l \in Lanes : lpc[l] \in {"done", "panic"}
  /\ mpc' = IF \E l \in Lanes : lpc[l] = "panic" THEN "panic" ELSE "merge"
  /\ UNCHANGED <<data, cpus, mapped, lpc, chunk_offset, size, start, readptr, stores,
                 fed, store, mlane, iter_idx, out>>

\* the merge loop body for one item of stores[mlane] (lines 209-231)
MergeFold ==
  /\ mpc = "merge"
  /\ mlane < cpus
  /\ LET nx == MapIterNext(stores[mlane], iter_idx)
     IN  /\ nx.kind # "none"
         /\ IF nx.kind = "panic"
            THEN /\ mpc' = "panic"
                 /\ UNCHANGED <<stores, iter_idx, store>>
            ELSE LET f == FoldItem(store, nx.item)
                 IN  /\ stores' = [stores EXCEPT ![mlane] = nx.map]
                     /\ iter_idx' = nx.idx
                     /\ IF f.kind = "ok"
                        THEN /\ store' = f.map
                             /\ UNCHANGED mpc
                        ELSE /\ mpc' = "panic"
                             /\ UNCHANGED store
  /\ UNCHANGED <<data, cpus, mapped, lpc, chunk_offset, size, start, readptr, fed,
                 mlane, out>>

\* the iterator of stores[mlane] is exhausted: next lane's store (line 208)
MergeAdvance ==
  /\ mpc = "merge"
  /\ mlane < cpus
  /\ MapIterNext(stores[mlane], iter_idx).kind = "none"
  /\ mlane' = mlane + 1
  /\ iter_idx' = 0
  /\ UNCHANGED <<data, cpus, mapped, lpc, chunk_offset, size, start, readptr, stores,
                 fed, store, mpc, out>>

\* main after cluster_process: collect, sort, print (lines 404-407)
Report ==
  /\ mpc = "merge"
  /\ mlane = cpus
  /\ LET c == Collect(store, 0, << >>)
     IN  IF c.kind = "panic"
         THEN /\ mpc' = "panic"
              /\ UNCHANGED <<store, out>>
         ELSE /\ out' \in SortedByKey(c.v)
              /\ store' = c.map
              /\ mpc' = "printed"
  /\ UNCHANGED <<data, cpus, mapped, lpc, chunk_offset, size, start, readptr, stores,
                 fed, mlane, iter_idx>>

Next ==
  \/ \E l \in Lanes : LaneSeek(l)
  \/ \E l \in Lanes : LaneProcess(l)
  \/ \E l \in Lanes : LaneExit(l)
  \/ Join
  \/ MergeFold
  \/ MergeAdvance
  \/ Report

\* Two buffers, one lane each: lane 0 consumes a whole, lane 1 consumes b whole,
\* and both stores are merged; `data` is a followed by b.
MergeFiles ==
  FilesOf(FewRecords, MaxRecords - 1) \cup FilesOf(EqualHashRecords, MaxRecords - 1)

InitMerge ==
  /\ cpus = 2
  /\ \E a \in MergeFiles : \E b \in MergeFiles :
       /\ data = a \o b
       /\ mapped = (0 :> a @@ 1 :> b)
       /\ size = (0 :> Len(a) @@ 1 :> Len(b))
  /\ lpc = [l \in Lanes |-> "spawned"]
  /\ chunk_offset = [l \in Lanes |-> 0]
  /\ start = [l \in Lanes |-> 0]
  /\ readptr = [l \in Lanes |-> 0]
  /\ stores = [l \in Lanes |-> NewMap]
  /\ fed = [l \in Lanes |-> << >>]
  /\ store = NewMap
  /\ mpc = "scope"
  /\ mlane = 0
  /\ iter_idx = 0
  /\ out = << >>

SpecMerge == InitMerge /\ [][Next]_vars

Spec == Init /\ [][Next]_vars

\* ------------------------------------------------- what the bytes denote
\* Read off the buffer directly, without parse_line.
RecordStarts(d) == {p \in 0..(Len(d) - 1) : p = 0 \/ At(d, p - 1) = NL}

\* the first offset >= p holding byte b, or the buffer length
FirstAt(d, p, b) ==
  LET hits == {q \in p..(Len(d) - 1) : At(d, q) = b} \cup {Len(d)}
  IN  CHOOSE q \in hits : \A r \in hits : q <= r

KeyOf(d, p) == Slice(d, p, FirstAt(d, p, SEMI))
ValueBytes(d, p) == Slice(d, FirstAt(d, p, SEMI) + 1, FirstAt(d, p, NL))

\* a decimal with one fractional digit, in tenths
RECURSIVE DigitsValue(_, _)
DigitsValue(bytes, acc) ==
  IF bytes = << >> THEN acc
  ELSE IF Head(bytes) = DOT THEN DigitsValue(Tail(bytes), acc)
  ELSE DigitsValue(Tail(bytes), 10 * acc + (Head(bytes) - ZERO))

TenthsOf(bytes) ==
  IF bytes # << >> /\ Head(bytes) = MINUS
  THEN 0 - DigitsValue(Tail(bytes), 0)
  ELSE DigitsValue(bytes, 0)

ValueOf(d, p) == TenthsOf(ValueBytes(d, p))

\* the number of tenths nearest to an f32
NearestTenth(a) ==
  LET num == a.man * 10
      den == Pow2(0 - a.exp)
      q == num \div den
      t == IF a.man = 0 \/ a.exp < 0 - 30 THEN 0
           ELSE IF a.exp >= 0 THEN num * Pow2(a.exp)
           ELSE IF num % den >= den - (num % den) THEN q + 1 ELSE q
  IN  IF a.neg THEN 0 - t ELSE t

InTenths(v) == Data(NearestTenth(v.min), NearestTenth(v.max), NearestTenth(v.sum), v.count)

RECURSIVE SumOver(_, _)
SumOver(S, f) ==
  IF S = {} THEN 0
  ELSE LET x == CHOOSE y \in S : TRUE IN f[x] + SumOver(S \ {x}, f)

\* how many times the record starting at p was put into a lane's Map
Feeds == UNION {{<<l, i>> : i \in 1..Len(fed[l])} : l \in Lanes}
TimesFed(p) == Cardinality({x \in Feeds : fed[x[1]][x[2]].offset = p})

\* the merge loop has folded every lane's store
MergeDone == mpc = "merge" /\ mlane = cpus

SumOfCounts(map) ==
  SumOver(DOMAIN map.slots2, [i \in DOMAIN map.slots2 |-> map.slots2[i][2].count])

\* ---------------------------------------------------------------- claims
\* C1: every record of the input is put into a lane's Map exactly once over
\* all lanes, and after the merge the counts of the final Map add up to the
\* number of records.
C1_EveryRecordOnce ==
  /\ mpc = "merge" => \A p \in RecordStarts(data) : TimesFed(p) = 1
  /\ MergeDone => SumOfCounts(store) = Cardinality(RecordStarts(data))

\* C2: the final Map is the same for every number of lanes: it is the one a
\* single lane produces for the same buffer.
C2_PartitionInvariant ==
  MergeDone => SingleLane(data).kind = "ok" /\ store = SingleLane(data).map

\* the keys of the input and, per key, its statistics by one pass over it
KeysIn(d) == {KeyOf(d, p) : p \in RecordStarts(d)}
DistinctSlots(d) ==
  \A k1 \in KeysIn(d) : \A k2 \in KeysIn(d) :
    k1 # k2 => SlotIdx(hash(k1)) # SlotIdx(hash(k2))
StatsOf(d, k) ==
  LET ps == {p \in RecordStarts(d) : KeyOf(d, p) = k}
      vs == [p \in ps |-> ValueOf(d, p)]
  IN  Data(CHOOSE v \in {vs[p] : p \in ps} : \A p \in ps : v <= vs[p],
           CHOOSE v \in {vs[p] : p \in ps} : \A p \in ps : v >= vs[p],
           SumOver(ps, vs),
           Cardinality(ps))
Entries(map) == {map.slots2[i] : i \in DOMAIN map.slots2}

\* C3: when distinct keys have distinct slots, the final Map holds exactly
\* the keys of the input, each with the min, max, sum and count of its values.
C3_AggregateCorrect ==
  MergeDone /\ DistinctSlots(data) =>
    /\ {e[1] : e \in Entries(store)} = KeysIn(data)
    /\ \A e \in Entries(store) : InTenths(e[2]) = StatsOf(data, e[1])

\* a lane whose start point has been found
Started(l) == lpc[l] # "spawned" /\ chunk_offset[l] <= Len(mapped[l])

\* C4: a lane whose nominal offset idx * size_per_cpu is not 0 starts at the
\* smallest offset at or after it whose preceding byte is '\n'; a lane whose
\* nominal offset is 0 starts at 0.
C4_BoundaryAdjusted ==
  \A l \in Lanes :
    Started(l) =>
      IF ChunkOffset(l) = 0 THEN start[l] = 0
      ELSE /\ start[l] >= ChunkOffset(l)
           /\ At(data, start[l] - 1) = NL
           /\ \A p \in ChunkOffset(l)..(start[l] - 1) : At(data, p - 1) # NL

C4_Witness ==
  \E l \in Lanes : Started(l) /\ ChunkOffset(l) > 0 /\ start[l] > ChunkOffset(l)

\* the first buffer is empty or ends in '\n'
FirstTerminated == mapped[0] = << >> \/ mapped[0][Len(mapped[0])] = NL

\* the outcome of two lanes over a and b is that of one lane over a followed by b
SameAsConcatenated ==
  /\ mpc = "panic" => SingleLane(data).kind # "ok"
  /\ MergeDone => SingleLane(data).kind = "ok" /\ store = SingleLane(data).map

\* C5: for two buffers of which the first is empty or ends in '\n', so that
\* the first followed by the second holds the records of both, merging the
\* stores of one lane over each gives the statistics, and the fatal
\* collisions, of one lane over the first followed by the second.
C5_MergeAssociative == FirstTerminated => SameAsConcatenated

\* C6: for a record whose value is an optional '-', one or two digits, '.',
\* one digit, parse_line returns the value in tenths with its sign, and the
\* offset one past the fractional digit: that of the next '\n', or the
\* length of the buffer.
C6_ParseLine ==
  \A l \in Lanes : \A i \in 1..Len(fed[l]) :
    LET d == mapped[l]
        p == fed[l][i].offset
        r == fed[l][i].parsed
    IN  p \in RecordStarts(d) =>
          /\ NearestTenth(r.val) = ValueOf(d, p)
          /\ r.next = FirstAt(d, p, NL)
          /\ r.next = p + Len(KeyOf(d, p)) + 1 + Len(ValueBytes(d, p))
          /\ At(d, r.next - 2) = DOT

C6_Witness ==
  \E l \in Lanes : \E i \in 1..Len(fed[l]) :
    /\ NearestTenth(fed[l][i].parsed.val) = 0 - 987
    /\ fed[l][i].parsed.next = Len(mapped[l])

Tables == {stores[l] : l \in Lanes} \cup {store}

\* the mean as print_store computes it (line 384)
Mean(v) == F32DivCount(v.sum, v.count)
F32Le(a, b) == ~F32Lt(b, a)

\* C7: every live entry of every lane's Map and of the final Map has
\* count >= 1 and min <= sum / count <= max.
C7_StatsInvariant ==
  \A map \in Tables : \A e \in Entries(map) :
    /\ e[2].count >= 1
    /\ F32Le(e[2].min, Mean(e[2]))
    /\ F32Le(Mean(e[2]), e[2].max)

\* C8: in every Map no two live slots hold byte-equal keys.
C8_UniqueKeys ==
  \A map \in Tables :
    \A i \in DOMAIN map.slots2 : \A j \in DOMAIN map.slots2 :
      i # j => map.slots2[i][1] # map.slots2[j][1]

C8_Witness ==
  \E l \in Lanes :
    /\ Len(fed[l]) >= 2
    /\ fed[l][1].parsed.place = fed[l][2].parsed.place
    /\ Cardinality(DOMAIN stores[l].slots2) = 1

\* a lane that has scanned its partition to the end
LaneComplete(l) ==
  /\ lpc[l] = "done"
  /\ (readptr[l] - start[l] >= size[l] \/ readptr[l] >= Len(mapped[l]))

\* C9: the result is printed only in runs where every lane scanned its
\* partition to the end and every lane's Map was folded whole; after a panic
\* of a lane or of the merge nothing is printed, then or later.
C9_AllOrNothing ==
  /\ [](/\ (mpc = "printed" =>
              /\ mlane = cpus
              /\ \A l \in Lanes : LaneComplete(l) /\ DOMAIN stores[l].slots2 = {})
         /\ (mpc # "printed" => out = << >>)
         /\ ((\E l \in Lanes : lpc[l] = "panic") => mpc \in {"scope", "panic"}))
  /\ [][mpc = "panic" => mpc' = "panic" /\ out' = << >>]_vars

C9_Witness ==
  /\ mpc = "panic"
  /\ \A l \in Lanes : lpc[l] = "done"
  /\ store # NewMap

\* C10: the merge touches the final Map, and takes items out of a lane's Map,
\* only once every lane has finished; items are taken from stores[mlane] only,
\* mlane moves on by one and only past a Map that has been emptied, and when
\* the merge is done every lane's Map has been emptied.
C10_MergeAfterJoin ==
  /\ [](/\ ((store # NewMap \/ mlane > 0 \/ mpc \in {"merge", "printed"}) =>
              \A l \in Lanes : lpc[l] = "done")
         /\ (MergeDone => \A l \in Lanes : DOMAIN stores[l].slots2 = {}))
  /\ [][/\ (store' # store => \A l \in Lanes : lpc[l] = "done")
        /\ \A l \in Lanes :
             (\E i \in DOMAIN stores[l].slots2 : i \notin DOMAIN stores'[l].slots2) =>
               (l = mlane /\ \A m \in Lanes : lpc[m] = "done")
        /\ (mlane' # mlane =>
              mlane' = mlane + 1 /\ DOMAIN stores[mlane].slots2 = {})]_vars

C10_Witness ==
  /\ mpc = "merge"
  /\ mlane = 1
  /\ cpus >= 2
  /\ stores[0].slots1 # << >>
  /\ stores[1].slots1 # << >>
  /\ store # NewMap

\* what lane l's Map holds when the lane is done, by consume run on its own
LaneResult(l) == consume(mapped[l], ChunkOffset(l), ChunkSize(l), NewMap)

\* the Maps of lanes l, l+1, ... folded into final in lane order
RECURSIVE FoldLanes(_, _)
FoldLanes(final, l) ==
  IF l >= cpus THEN [kind |-> "ok", map |-> final]
  ELSE LET f == FoldStore(final, LaneResult(l).map, 0)
       IN  IF f.kind = "ok" THEN FoldLanes(f.map, l + 1) ELSE [kind |-> "panic"]

\* C11: while the lanes scan, a step changes the Map of one lane only, that
\* of the lane that took it, and neither the buffer nor the final Map; so
\* whatever the interleaving, a finished lane's Map is the one consume
\* computes for its chunk alone, and the merged Map is the fold of these.
C11_LaneIsolation ==
  /\ [](/\ \A l \in Lanes :
             (mpc = "scope" /\ lpc[l] = "done") =>
               (LaneResult(l).kind = "ok" /\ stores[l] = LaneResult(l).map)
        /\ (mpc = "scope" => store = NewMap)
        /\ (MergeDone =>
              (FoldLanes(NewMap, 0).kind = "ok" /\ store = FoldLanes(NewMap, 0).map)))
  /\ [][mpc = "scope" =>
          /\ data' = data /\ mapped' = mapped /\ store' = store
          /\ \A l \in Lanes :
               stores'[l] # stores[l] =>
                 /\ lpc[l] = "scan" /\ readptr'[l] > readptr[l]
                 /\ \A m \in Lanes \ {l} :
                      stores'[m] = stores[m] /\ readptr'[m] = readptr[m]]_vars

C11_Witness ==
  /\ mpc = "scope"
  /\ cpus >= 2
  /\ \A l \in Lanes : lpc[l] = "done"
  /\ Cardinality({l \in Lanes : stores[l] # NewMap}) >= 2

\* no '\n' at or after offset p - 1: the start search from p finds nothing
NoSeparatorFrom(d, p) == \A q \in (p - 1)..(Len(d) - 1) : At(d, q) # NL

\* C12: a lane whose nominal offset is not 0 and has no '\n' from the byte
\* before it to the end of the buffer does not panic: its search stops at the
\* end of the buffer and it puts no record into its Map.
C12_SearchStopsAtEnd ==
  \A l \in Lanes :
    (/\ lpc[l] # "spawned"
     /\ ChunkOffset(l) > 0
     /\ NoSeparatorFrom(mapped[l], ChunkOffset(l))) =>
      /\ lpc[l] # "panic"
      /\ chunk_offset[l] <= Len(mapped[l])
      /\ fed[l] = << >>

\* the keys the inputs hold
Keys == {KeyA, KeyFp, KeyGlbvs, KeyYacxa}

\* slot (h mod MAP_SIZE) of map is filled, by another hash than h
Collides(map, h) ==
  SlotIdx(h) \in DOMAIN map.slots1 /\ map.slots1[SlotIdx(h)] # h

\* the Maps that process or the merge may call now: a lane's until the scope
\* ends, main's until it is drained
CallableTables ==
  (IF mpc = "scope" THEN {stores[l] : l \in Lanes} ELSE {})
    \cup (IF mpc \in {"scope", "merge"} THEN {store} ELSE {})

\* C13: on every Map the program may call, get_mut_with_hash and
\* insert_with_hash called with a hash whose slot is held by another hash
\* panic, and a call without such a collision does not raise a collision;
\* a lane or a merge that stops on a collision leaves its Map as it was.
C13_CollisionPolicy ==
  /\ [](\A map \in CallableTables : \A k \in Keys :
          LET h == hash(k)
              g == get_mut_with_hash(map, k, h)
              i == insert_with_hash(map, k, Data(0, 0, 0, 1), h)
          IN  IF Collides(map, h)
              THEN /\ g = [kind |-> "panic", msg |-> "unexpected read collision"]
                   /\ i = [kind |-> "panic", msg |-> "unexpected insert collision"]
              ELSE /\ g.kind # "panic" /\ i.kind # "panic"
                   /\ DOMAIN i.map.slots1 = DOMAIN map.slots1 \cup {SlotIdx(h)}
                   /\ \A j \in DOMAIN map.slots1 \ {SlotIdx(h)} :
                        i.map.slots1[j] = map.slots1[j] /\ i.map.slots2[j] = map.slots2[j])
  /\ [][/\ \A l \in Lanes :
            (lpc[l] = "scan" /\ lpc'[l] = "panic") =>
              /\ stores' = stores
              /\ Collides(stores[l], parse_line(mapped[l], readptr[l]).place_hash)
        /\ \A l \in Lanes :
            (/\ lpc[l] = "scan" /\ lpc'[l] = "scan" /\ readptr'[l] # readptr[l]) =>
              ~Collides(stores[l], parse_line(mapped[l], readptr[l]).place_hash)
        /\ (mpc = "merge" /\ mpc' = "panic") =>
              /\ store' = store
              /\ \E it \in Entries(stores[mlane]) : Collides(store, hash(it[1]))]_vars

C13_Witness ==
  \E l \in Lanes :
    /\ lpc[l] = "panic"
    /\ stores[l] # NewMap
    /\ Collides(stores[l], parse_line(mapped[l], readptr[l]).place_hash)

\* C14: the offset at which a lane calls parse_line next is at or past the
\* end of the buffer, or a record start; every offset it has parsed at is a
\* record start, later ones larger; the read pointer never goes back and
\* moves forward with every record; a call at or past the end makes the lane
\* stop with its Map as it was.
C14_CalledAtRecordStart ==
  /\ [](\A l \in Lanes :
          /\ (lpc[l] = "scan") =>
                (readptr[l] >= Len(mapped[l]) \/ readptr[l] \in RecordStarts(mapped[l]))
          /\ \A i \in 1..Len(fed[l]) :
                /\ fed[l][i].offset \in RecordStarts(mapped[l])
                /\ (i > 1 => fed[l][i].offset > fed[l][i - 1].offset))
  /\ [][\A l \in Lanes :
          /\ readptr'[l] >= readptr[l]
          /\ (fed'[l] # fed[l]) => (readptr'[l] > readptr[l])
          /\ (lpc[l] = "scan" /\ lpc'[l] = "done" /\ readptr[l] - start[l] < size[l]) =>
               (readptr[l] >= Len(mapped[l]) /\ stores' = stores)]_vars

\* a lane that parsed a record and then called parse_line at the end
C14_Witness ==
  \E l \in Lanes :
    /\ lpc[l] = "done"
    /\ Len(fed[l]) >= 1
    /\ readptr[l] >= Len(mapped[l])
    /\ readptr[l] - start[l] < size[l]

\* a Map no MapIter has taken an entry from
Whole(map) == DOMAIN map.slots1 = DOMAIN map.slots2

\* v lists the entries of map, each once, by increasing slot index
InSlotOrder(map, v) ==
  /\ Len(v) = Cardinality(DOMAIN map.slots2)
  /\ \E at \in [1..Len(v) -> DOMAIN map.slots2] :
       /\ \A j \in 1..Len(v) : v[j] = map.slots2[at[j]]
       /\ \A j \in 1..(Len(v) - 1) : at[j] < at[j + 1]

\* C15: draining a whole Map yields its live entries, each once, by strictly
\* increasing slot index, as many as there are filled slots; and the merge
\* loop, which drains stores[mlane] item by item, always takes the entry of
\* the least slot still live, moves idx past it, and finds None only when no
\* entry is left.
C15_Drain ==
  /\ [](\A map \in Tables :
          Whole(map) =>
            (Collect(map, 0, << >>).kind = "ok"
               /\ InSlotOrder(map, Collect(map, 0, << >>).v)
               /\ DOMAIN Collect(map, 0, << >>).map.slots2 = {}))
  /\ [][(mpc = "merge" /\ mlane < cpus) =>
          LET live == DOMAIN stores[mlane].slots2
              left == DOMAIN stores'[mlane].slots2
          IN  /\ (stores' # stores) =>
                   \E i \in live :
                     /\ left = live \ {i}
                     /\ \A j \in live : i <= j
                     /\ i >= iter_idx /\ iter_idx' = i + 1
              /\ (mlane' # mlane) => live = {}]_vars

\* a lane's Map of two entries, the first inserted one in the larger slot,
\* drained to the end
C15_Witness ==
  /\ mpc = "merge"
  /\ \E l \in Lanes :
       /\ Cardinality(DOMAIN stores[l].slots1) = 2
       /\ DOMAIN stores[l].slots2 = {}
       /\ \A i \in DOMAIN stores[l].slots1 :
            i <= SlotIdx(fed[l][1].parsed.place_hash)

\* the inputs that end in '\n'
TerminatedFiles == {d \in FewFiles : d # << >> /\ d[Len(d)] = NL}

InitTerminated ==
  /\ data \in TerminatedFiles
  /\ cpus \in 1..MaxCpus
  /\ mapped = [l \in Lanes |-> data]
  /\ lpc = [l \in Lanes |-> "spawned"]
  /\ chunk_offset = [l \in Lanes |-> ChunkOffset(l)]
  /\ size = [l \in Lanes |-> ChunkSize(l)]
  /\ start = [l \in Lanes |-> 0]
  /\ readptr = [l \in Lanes |-> 0]
  /\ stores = [l \in Lanes |-> NewMap]
  /\ fed = [l \in Lanes |-> << >>]
  /\ store = NewMap
  /\ mpc = "scope"
  /\ mlane = 0
  /\ iter_idx = 0
  /\ out = << >>

\* Scheduling.  A thread that can take its next step eventually takes it.
\* For the start search, the loop's exit and the return of thread::scope this
\* is weak fairness of the step itself.  For an iteration of the record loop
\* and for the steps of the merge and the report it is weak fairness of the
\* change of the thread's position that the step makes, LoopMoves and
\* MergeMoves; StepsAreMoves states that these are the same steps.

\* thread l is in the record loop and the loop condition holds (line 253)
InLoop(l) == l \in Lanes /\ lpc[l] = "scan" /\ readptr[l] - start[l] < size[l]

\* thread l leaves its position in the record loop
LoopMoves(l) ==
  /\ InLoop(l)
  /\ lpc' \in [Lanes -> {"spawned", "scan", "done", "panic", "undefined"}]
  /\ readptr' \in [Lanes -> 0..(Len(data) + 1)]
  /\ <<lpc'[l], readptr'[l]>> # <<lpc[l], readptr[l]>>

\* the main thread leaves its position in the merge or the report
MergeMoves ==
  /\ mpc = "merge"
  /\ mpc' \in {"scope", "merge", "printed", "panic"}
  /\ mlane' \in 0..MaxCpus
  /\ iter_idx' \in 0..MAP_SIZE
  /\ <<mpc', mlane', iter_idx'>> # <<mpc, mlane, iter_idx>>

\* every iteration of the record loop moves its thread, every step of the
\* merge and the report moves the main thread, and nothing else does
StepsAreMoves ==
  /\ [][\A l \in 0..(MaxCpus - 1) : LoopMoves(l) <=> (l \in Lanes /\ LaneProcess(l))]_vars
  /\ [][MergeMoves <=> (MergeFold \/ MergeAdvance \/ Report)]_vars

SpecFair ==
  /\ InitTerminated
  /\ [][Next]_vars
  /\ \A l \in 0..(MaxCpus - 1) :
       /\ WF_vars(l \in Lanes /\ LaneSeek(l))
       /\ WF_<<lpc, readptr>>(LoopMoves(l))
       /\ WF_vars(l \in Lanes /\ LaneExit(l))
  /\ WF_vars(Join)
  /\ WF_<<mpc, mlane, iter_idx>>(MergeMoves)

\* C16: on an input that ends in '\n', every lane ends, done or panicked, and
\* the run ends: the merged result is printed, or the run has panicked.  Every
\* step of the record loop and of the merge leaves the position it was taken at.
C16_Termination ==
  /\ StepsAreMoves
  /\ \A l \in 0..(MaxCpus - 1) : <>(l \in Lanes => lpc[l] \in {"done", "panic"})
  /\ <>(mpc \in {"printed", "panic"})

C16_Witness ==
  /\ mpc = "printed"
  /\ cpus >= 2
  /\ \A l \in Lanes : lpc[l] = "done" /\ fed[l] # << >>

\* the first record of d with a key of hash h
FirstWithHash(d, h) ==
  LET ps == {p \in RecordStarts(d) : hash(KeyOf(d, p)) = h}
  IN  CHOOSE p \in ps : \A q \in ps : p <= q

\* the records put into lane l's Map under hash h, in the order of the puts
FedWithHash(l, h) == SelectSeq(fed[l], LAMBDA f : f.parsed.place_hash = h)

\* the hashes of the keys
KeyHash == [k \in Keys |-> hash(k)]

\* map holds an entry under hash h
Holds(map, h) ==
  SlotIdx(h) \in DOMAIN map.slots1 /\ map.slots1[SlotIdx(h)] = h

\* C17: keys of one hash share one entry.  get_mut_with_hash gives the same
\* answer for every key of a hash, the entry when the hash is held; a lane's
\* entry carries the key of the first record the lane put under its hash and
\* counts all of them; a record or a merged item whose hash is held is folded
\* into the entry without a panic and leaves the entry's key as it was; the
\* printed result names, for every hash of the input, the key of the first
\* record of that hash and no other key of that hash.
C17_EqualHashMerged ==
  /\ [](/\ \A map \in CallableTables : \A k1 \in Keys : \A k2 \in Keys :
             KeyHash[k1] = KeyHash[k2] =>
               /\ get_mut_with_hash(map, k1, KeyHash[k1]) = get_mut_with_hash(map, k2, KeyHash[k2])
               /\ Holds(map, KeyHash[k1]) =>
                    get_mut_with_hash(map, k2, KeyHash[k2]) =
                      [kind |-> "some", slot |-> SlotIdx(KeyHash[k1])]
        /\ mpc = "scope" =>
             \A l \in Lanes : \A i \in DOMAIN stores[l].slots2 :
               LET fs == FedWithHash(l, stores[l].slots1[i])
               IN  /\ fs # << >>
                   /\ stores[l].slots2[i][1] = fs[1].parsed.place
                   /\ stores[l].slots2[i][2].count = Len(fs)
        /\ mpc = "printed" =>
             /\ \A j \in 1..Len(out) :
                  out[j][1] = KeyOf(data, FirstWithHash(data, hash(out[j][1])))
             /\ \A p \in RecordStarts(data) :
                  Cardinality({j \in 1..Len(out) :
                                 hash(out[j][1]) = hash(KeyOf(data, p))}) = 1)
  /\ [][/\ \A l \in Lanes :
            (/\ InLoop(l)
             /\ <<lpc'[l], readptr'[l]>> # <<lpc[l], readptr[l]>>
             /\ readptr[l] < Len(mapped[l])
             /\ ~parse_line(mapped[l], readptr[l]).undefined
             /\ Holds(stores[l], parse_line(mapped[l], readptr[l]).place_hash)) =>
              LET i == SlotIdx(parse_line(mapped[l], readptr[l]).place_hash)
              IN  /\ lpc'[l] = "scan"
                  /\ DOMAIN stores'[l].slots2 = DOMAIN stores[l].slots2
                  /\ stores'[l].slots2[i][1] = stores[l].slots2[i][1]
                  /\ stores'[l].slots2[i][2].count = stores[l].slots2[i][2].count + 1
        /\ (/\ mpc = "merge" /\ mlane < cpus /\ iter_idx' # iter_idx
            /\ MapIterNext(stores[mlane], iter_idx).kind = "some"
            /\ Holds(store, hash(MapIterNext(stores[mlane], iter_idx).item[1]))) =>
              LET it == MapIterNext(stores[mlane], iter_idx).item
                  i == SlotIdx(hash(it[1]))
              IN  /\ mpc' = "merge"
                  /\ DOMAIN store'.slots2 = DOMAIN store.slots2
                  /\ store'.slots2[i][1] = store.slots2[i][1]
                  /\ store'.slots2[i][2].count = store.slots2[i][2].count + it[2].count]_vars

\* a printed result of one entry, for a run in which a lane put the second key
\* under the entry of the first and the merge folded an entry of the second
\* key into the entry of the first
C17_Witness ==
  /\ mpc = "printed"
  /\ Len(out) = 1
  /\ \E l \in Lanes : \E j \in 2..Len(fed[l]) :
       fed[l][j].parsed.place # fed[l][1].parsed.place
  /\ \E l \in Lanes : fed[l] # << >> /\ fed[l][1].parsed.place # out[1][1]

\* the offset one past lane l's nominal partition
NominalEnd(l) == IF l = cpus - 1 THEN Len(data) ELSE ChunkOffset(l + 1)

\* the record starts lane l has put into its Map
FedBy(l) == {fed[l][j].offset : j \in 1..Len(fed[l])}

\* C18: a lane that has returned has put into its Map every record that starts
\* at or after its adjusted start and before the nominal start of the next
\* lane (the end of the buffer for the last lane), and no record starts
\* between a lane's nominal start and its adjusted start; when the scope has
\* ended without a panic, every record of the input was put into a Map by at
\* least one lane, for any number of lanes, more lanes than bytes included.
C18_NoRecordLost ==
  /\ \A l \in Lanes :
       /\ lpc[l] = "done" =>
            \A p \in RecordStarts(data) : (start[l] <= p /\ p < NominalEnd(l)) => p \in FedBy(l)
       /\ lpc[l] \in {"scan", "done"} =>
            \A p \in RecordStarts(data) : ~(ChunkOffset(l) <= p /\ p < start[l])
  /\ mpc = "merge" => \A p \in RecordStarts(data) : TimesFed(p) >= 1

\* a run of more lanes than bytes, floor(len / N) = 0, that ended its scope
\* with the record put into the last lane's Map
C18_Witness ==
  /\ mpc = "merge"
  /\ cpus > Len(data)
  /\ RecordStarts(data) # {}
  /\ fed[cpus - 1] # << >>
  /\ \A p \in RecordStarts(data) : TimesFed(p) >= 1

\* the entry has the least and the greatest of the values of key k in d
HasMinMaxOf(e, d, k) ==
  /\ NearestTenth(e.min) = StatsOf(d, k).min
  /\ NearestTenth(e.max) = StatsOf(d, k).max
  /\ \E p \in RecordStarts(d) : KeyOf(d, p) = k /\ parse_line(d, p).val = e.min
  /\ \E p \in RecordStarts(d) : KeyOf(d, p) = k /\ parse_line(d, p).val = e.max

\* C19: when distinct keys of the input have distinct slots, the final Map
\* after the merge, and the printed result, hold exactly the keys of the
\* input, each with the minimum and the maximum of its values in the input,
\* for every number of lanes and also when lanes have scanned a record twice.
C19_MinMaxPartitionIndependent ==
  DistinctSlots(data) =>
    /\ MergeDone =>
         /\ {e[1] : e \in Entries(store)} = KeysIn(data)
         /\ \A e \in Entries(store) : HasMinMaxOf(e[2], data, e[1])
    /\ mpc = "printed" =>
         /\ {out[j][1] : j \in 1..Len(out)} = KeysIn(data)
         /\ \A j \in 1..Len(out) : HasMinMaxOf(out[j][2], data, out[j][1])

\* a merged Map for a run of several lanes in which a record was scanned
\* twice and a key has two different values held by different lanes
C19_Witness ==
  /\ MergeDone
  /\ DistinctSlots(data)
  /\ \E p \in RecordStarts(data) : TimesFed(p) >= 2
  /\ \E e \in Entries(store) : e[2].min # e[2].max
  /\ \E l1 \in Lanes : \E l2 \in Lanes :
       /\ l1 # l2 /\ fed[l1] # << >> /\ fed[l2] # << >>
       /\ fed[l1][1].parsed.place = fed[l2][1].parsed.place
       /\ fed[l1][1].parsed.val # fed[l2][1].parsed.val

\* slots1 and slots2 of map are filled at the same indices, and a stored
\* hash belongs to the slot it is stored in
Consistent(map) ==
  /\ DOMAIN map.slots1 = DOMAIN map.slots2
  /\ \A i \in DOMAIN map.slots1 :
       i \in 0..(MAP_SIZE - 1) /\ SlotIdx(map.slots1[i]) = i

\* the Maps no iterator has taken from: the lanes' during the scope and those
\* the merge has not come to, main's until the report
Undrained ==
  {stores[l] : l \in {m \in Lanes : mpc = "scope" \/ (mpc = "merge" /\ m > mlane)}}
    \cup (IF mpc \in {"scope", "merge"} THEN {store} ELSE {})

ShouldExist(r) == r.kind = "panic" /\ r.msg = "should exist if slot1 is filled"

\* C20: every Map that has not been drained is consistent, and get_mut_with_hash
\* and insert_with_hash on it do not fail with "should exist if slot1 is
\* filled"; of the Map the merge is draining exactly the filled slots below the
\* iterator's position have been taken, the iterator's next item is at or
\* after that position in a slot not yet taken, and neither this iterator nor
\* the one of the report fails with "should exist if slot1 is filled".
C20_SlotsConsistent ==
  /\ \A map \in Undrained :
       /\ Consistent(map)
       /\ \A k \in Keys :
            /\ ~ShouldExist(get_mut_with_hash(map, k, KeyHash[k]))
            /\ ~ShouldExist(insert_with_hash(map, k, Data(0, 0, 0, 1), KeyHash[k]))
  /\ (mpc = "merge" /\ mlane < cpus) =>
       LET map == stores[mlane]
           nx == MapIterNext(map, iter_idx)
       IN  /\ DOMAIN map.slots2 = {i \in DOMAIN map.slots1 : i >= iter_idx}
           /\ \A i \in DOMAIN map.slots1 : SlotIdx(map.slots1[i]) = i
           /\ ~ShouldExist(nx)
           /\ nx.kind = "some" =>
                /\ nx.idx - 1 >= iter_idx
                /\ nx.idx - 1 \in DOMAIN map.slots2
                /\ nx.idx - 1 \notin DOMAIN nx.map.slots2
  /\ MergeDone => ~ShouldExist(Collect(store, 0, << >>))

\* the merge in the middle of draining a lane's Map of two entries, one taken
\* and folded into main's Map, one still to come
C20_Witness ==
  /\ mpc = "merge"
  /\ mlane < cpus
  /\ iter_idx > 0
  /\ Cardinality(DOMAIN stores[mlane].slots1) = 2
  /\ Cardinality(DOMAIN stores[mlane].slots2) = 1
  /\ store # NewMap
  /\ Consistent(store)

====
